---- MODULE Spec2Model ----
(***************************************************************************)
(* lighthouse-keeper: the report store of src/lighthouse-data.mjs.         *)
(*                                                                         *)
(* Strings are sequences of one-character strings.  A JavaScript number    *)
(* that is an integer is an integer; the result of median, which may be a  *)
(* half, is a fraction [n, d] in lowest terms.  A value that may be absent *)
(* (undefined, a missing document, a cache miss) is a sequence of length   *)
(* 0 or 1.  A Date is a natural number of clock units (milliseconds).      *)
(***************************************************************************)
EXTENDS Integers, Sequences, FiniteSets, TLC

VARIABLES
    clock,      \* the last value new Date() returned
    runs,       \* Firestore: slug -> the run documents of collection slug
    full,       \* Cloud Storage: slug -> the lhr blob lhrs/<slug>.json
    meta,       \* Firestore: slug -> the document meta/<slug>
    memcache,   \* the three kinds of cache entries
    nextId,     \* the number of run documents created so far
    proc,       \* each caller: the call it is in and the call's locals
    overlap,    \* history: slug -> whether a saveReport on it overlapped a call on it
    arg,        \* input of the function under study (function specifications)
    out,        \* its outputs so far
    phase       \* its progress

vars == <<clock, runs, full, meta, memcache, nextId, proc, overlap, arg, out, phase>>

----------------------------------------------------------------------------
(* Bounds of the model. *)

MaxUrlLen == 4
MaxNumbers == 3
MaxTime == 1
MaxDocs == 2
MaxRecords == 45
MaxRunsPerUrl == 2

----------------------------------------------------------------------------
(* Strings. *)

RECURSIVE SeqsUpTo(_, _)
SeqsUpTo(S, n) ==
    IF n = 0 THEN {<<>>}
    ELSE LET shorter == SeqsUpTo(S, n - 1)
         IN  shorter \cup {Append(s, c) : s \in {t \in shorter : Len(t) = n - 1}, c \in S}

\* url.replace(/\//g, '__')
RECURSIVE slugify(_)
slugify(url) ==
    IF url = <<>> THEN <<>>
    ELSE IF Head(url) = "/" THEN <<"_", "_">> \o slugify(Tail(url))
    ELSE <<Head(url)>> \o slugify(Tail(url))

\* id.replace(/__/g, '/'): the matches are found left to right and do not overlap
RECURSIVE deslugify(_)
deslugify(id) ==
    IF Len(id) >= 2 /\ id[1] = "_" /\ id[2] = "_"
    THEN <<"/">> \o deslugify(SubSeq(id, 3, Len(id)))
    ELSE IF id = <<>> THEN <<>>
    ELSE <<Head(id)>> \o deslugify(Tail(id))

\* s.startsWith(prefix)
startsWith(s, prefix) ==
    Len(s) >= Len(prefix) /\ SubSeq(s, 1, Len(prefix)) = prefix

\* whether s contains sub as a substring
Contains(s, sub) ==
    \E i \in 1..(Len(s) - Len(sub) + 1) : SubSeq(s, i, i + Len(sub) - 1) = sub

----------------------------------------------------------------------------
(* Numbers: Array.prototype.sort() without a comparator, and median. *)

\* ToString of a non-negative integer, as its decimal digits
RECURSIVE Digits(_)
Digits(n) == IF n < 10 THEN <<n>> ELSE Append(Digits(n \div 10), n % 10)

\* a < b as strings compared by code unit
RECURSIVE LexLess(_, _)
LexLess(a, b) ==
    IF b = <<>> THEN FALSE
    ELSE IF a = <<>> THEN TRUE
    ELSE IF Head(a) # Head(b) THEN Head(a) < Head(b)
    ELSE LexLess(Tail(a), Tail(b))

\* the default sort order: x before y when String(x) < String(y)
DefaultBefore(x, y) == LexLess(Digits(x), Digits(y))

\* numbers.sort((a, b) => a - b)
NumericBefore(x, y) == x < y

\* numbers.sort()
SortBefore(x, y) == DefaultBefore(x, y)

RECURSIVE InsertSorted(_, _)
InsertSorted(x, s) ==
    IF s = <<>> THEN <<x>>
    ELSE IF SortBefore(x, Head(s)) THEN <<x>> \o s
    ELSE <<Head(s)>> \o InsertSorted(x, Tail(s))

RECURSIVE sort(_)
sort(numbers) ==
    IF numbers = <<>> THEN <<>> ELSE InsertSorted(Head(numbers), sort(Tail(numbers)))

\* x / 2 for an integer x
Half(x) == IF x % 2 = 0 THEN [n |-> x \div 2, d |-> 1] ELSE [n |-> x, d |-> 2]

\* median of a non-empty array, which it has sorted in place
median(numbers) ==
    LET sorted == sort(numbers)
        len == Len(sorted)
    IN  IF len % 2 = 0
        THEN Half(sorted[len \div 2] + sorted[len \div 2 + 1])
        ELSE Half(2 * sorted[(len - 1) \div 2 + 1])

----------------------------------------------------------------------------
(* Dates and Firestore timestamps. *)

\* Firestore's Timestamp of a Date
fromDate(date) ==
    [seconds |-> date \div 1000, nanoseconds |-> (date % 1000) * 1000000]

\* new Firestore.Timestamp(seconds, nanoseconds).toDate()
toDate(ts) == ts.seconds * 1000 + ts.nanoseconds \div 1000000

\* Date.prototype.toISOString, which JSON.stringify applies to a Date
toISOString(date) == [iso |-> date]

\* the order of two timestamps
TsLess(a, b) ==
    \/ a.seconds < b.seconds
    \/ a.seconds = b.seconds /\ a.nanoseconds < b.nanoseconds

\* new Date(): the clock never runs backwards, and may stand still
Now(t) == t \in clock..MaxTime /\ clock' = t

----------------------------------------------------------------------------
(* The stores. *)

U1 == <<"h", "t", "t", "p", "/", "a">>
U2 == <<"h", "t", "t", "p", "_", "/">>
Urls == {U1, U2}
Slugs == {slugify(u) : u \in Urls}

MAX_REPORTS == 10
batchSize == 20

\* json.lhr.categories of the payloads: one category, its score in hundredths
Payloads == {<<[id |-> "performance", score |-> 80]>>}

Procs == {1, 2}

Idle ==
    [op |-> "none", pc |-> "idle", url |-> <<>>, replace |-> FALSE,
     useCache |-> FALSE, maxResults |-> 0, lhrSlim |-> <<>>, today |-> 0,
     lastDoc |-> <<>>, docs |-> <<>>, val |-> <<>>, pending |-> {},
     batches |-> <<>>, urls |-> <<>>, scores |-> <<>>, had |-> 0,
     ret |-> <<>>, calls |-> <<>>, config |-> <<>>]

Min(a, b) == IF a < b THEN a ELSE b

RECURSIVE Reverse(_)
Reverse(s) == IF s = <<>> THEN <<>> ELSE Append(Reverse(Tail(s)), Head(s))

\* collection.orderBy('auditedOn', 'desc').limit(n).get() over the documents
\* S: the possible snapshots (documents with equal auditedOn come in the
\* order of their names, which are random)
RECURSIVE NewestFirst(_, _)
NewestFirst(S, n) ==
    IF n = 0 \/ S = {} THEN {<<>>}
    ELSE UNION {{<<d>> \o t : t \in NewestFirst(S \ {d}, n - 1)} :
                d \in {e \in S : \A f \in S : ~TsLess(e.auditedOn, f.auditedOn)}}

\* db.collection(slug): a collection that was never written holds nothing
Collection(slug) == IF slug \in Slugs THEN runs[slug] ELSE {}

QueryNewest(slug, n) == NewestFirst(Collection(slug), n)

\* collection.orderBy('__name__').limit(n).get() over the documents S
RECURSIVE ByName(_, _)
ByName(S, n) ==
    IF n = 0 \/ S = {} THEN <<>>
    ELSE LET d == CHOOSE e \in S : \A f \in S : e.id <= f.id
         IN  <<d>> \o ByName(S \ {d}, n - 1)

\* the limit taken one too large
QueryByName_OneMore(slug, n) == ByName(Collection(slug), n + 1)

QueryByName(slug, n) == ByName(Collection(slug), n)

\* db.doc(`meta/${slugify(url)}`).set({lastViewed: new Date()})
updateLastViewed(url, t) ==
    /\ Now(t)
    /\ meta' = [meta EXCEPT ![slugify(url)] = <<[lastViewed |-> fromDate(t)]>>]

Step(p, rec) == proc' = [proc EXCEPT ![p] = rec]

\* the URLs the callers name: one where calls interleave, all otherwise
CallUrls ==
    IF phase \in {"interleaved", "racing", "settled", "cleanup"} THEN {U1} ELSE Urls

\* the URLs saved: none once the callers have settled
SaveUrls == IF phase = "settled" THEN {} ELSE CallUrls

\* whether caller p is in no call: it is idle, or its call has returned
\* ("done", with ret) or thrown ("failed")
Free(p) == proc[p].pc \in {"idle", "done", "failed"}

\* whether caller q is inside a call on url
Busy(q, url) == ~Free(q) /\ proc[q].url = url

\* the history of overlaps, as caller p starts op on url: writes, when a
\* saveReport overlaps a saveReport or a deleteReports on the URL; reads, when
\* a saveReport overlaps a getReports on the URL
Overlap(p, op, url) ==
    LET others == {proc[q].op : q \in {q \in Procs \ {p} : Busy(q, url)}}
        SaveMeets(S) == \/ op = "saveReport" /\ others \cap S # {}
                        \/ op \in S /\ "saveReport" \in others
    IN  overlap' = [overlap EXCEPT ![slugify(url)] =
            [writes |-> @.writes \/ SaveMeets({"saveReport", "deleteReports"}),
             reads |-> @.reads \/ SaveMeets({"getReports"})]]

\* the remote calls of caller p, in the order it issued them
Log(p, call) == Append(proc[p].calls, call)

\* an error err is thrown in the call with locals rec: the call's promise
\* rejects, except inside the try of runLighthouseAPI (lines 186-191), which
\* returns json with the error in json.errors
Thrown(rec, err) ==
    IF rec.op = "runLighthouseAPI"
    THEN [rec EXCEPT !.pc = "done", !.ret = <<[errors |-> err]>>]
    ELSE [rec EXCEPT !.pc = "failed", !.ret = <<[rejected |-> err]>>]

----------------------------------------------------------------------------
(* saveReport(url, json, replace).  Each action is one remote call, together *)
(* with the local code that runs before the call is issued.                *)

\* lines 95-117: the call; data.auditedOn is read from the clock
CallSaveReport(p) ==
    /\ proc[p].pc = "idle"
    /\ \E url \in SaveUrls, json \in Payloads, replace \in BOOLEAN, t \in 0..MaxTime :
        /\ Now(t)
        /\ Overlap(p, "saveReport", url)
        /\ Step(p, [Idle EXCEPT !.op = "saveReport", !.pc = "saveQuery",
                                !.url = url, !.lhrSlim = json,
                                !.replace = replace, !.today = t])
    /\ UNCHANGED <<runs, full, meta, memcache, nextId, arg, out, phase>>

\* lastDoc, the negation forgotten
NoLastDoc_Inverted(snapshot) == snapshot # <<>>

\* !lastDoc
NoLastDoc(snapshot) == snapshot = <<>>

\* lines 118-121: the newest run document, if any
SaveQuery(p) ==
    /\ proc[p].pc = "saveQuery"
    /\ \E snapshot \in QueryNewest(slugify(proc[p].url), 1) :
        Step(p, [proc[p] EXCEPT
                    !.lastDoc = snapshot,
                    !.pc = IF NoLastDoc(snapshot) THEN "saveNewUrl" ELSE "saveUpload",
                    !.calls = Log(p, "query")])
    /\ UNCHANGED <<clock, runs, full, meta, memcache, nextId, overlap, arg, out, phase>>

\* lines 124-126: a new URL; the cached list of URLs is deleted
SaveNewUrl(p) ==
    /\ proc[p].pc = "saveNewUrl"
    /\ memcache' = [memcache EXCEPT !.getAllSavedUrls = <<>>]
    /\ Step(p, [proc[p] EXCEPT !.pc = "saveUpload",
                               !.calls = Log(p, "delete getAllSavedUrls")])
    /\ UNCHANGED <<clock, runs, full, meta, nextId, overlap, arg, out, phase>>

\* lines 128-129 and uploadReport: the lhr, stamped, replaces the URL's blob
\* (of the lhr, the model keeps auditedOn; the payload has none)
SaveUpload(p) ==
    /\ proc[p].pc = "saveUpload"
    /\ full' = [full EXCEPT ![slugify(proc[p].url)] =
                    <<[auditedOn |-> toISOString(proc[p].today)]>>]
    /\ Step(p, [proc[p] EXCEPT !.pc = "saveWrite", !.calls = Log(p, "upload")])
    /\ UNCHANGED <<clock, runs, meta, memcache, nextId, overlap, arg, out, phase>>

\* !replace && lastDoc
ReplacesLast_Inverted(p) == ~proc[p].replace /\ proc[p].lastDoc # <<>>

\* whether saveReport updates the last document instead of adding one
ReplacesLast(p) == proc[p].replace /\ proc[p].lastDoc # <<>>

\* lines 130-134: the last document is updated, or a new one added.  update
\* rejects when the document is gone.
SaveWrite(p) ==
    /\ proc[p].pc = "saveWrite"
    /\ LET slug == slugify(proc[p].url)
           data == [auditedOn |-> fromDate(proc[p].today), lhrSlim |-> proc[p].lhrSlim]
       IN  IF ReplacesLast(p)
           THEN LET ref == proc[p].lastDoc[1].id
                IN  IF \E d \in runs[slug] : d.id = ref
                    THEN /\ runs' = [runs EXCEPT ![slug] =
                                {IF d.id = ref
                                 THEN [d EXCEPT !.auditedOn = data.auditedOn,
                                                !.lhrSlim = data.lhrSlim]
                                 ELSE d : d \in @}]
                         /\ Step(p, [proc[p] EXCEPT !.pc = "saveTouch",
                                                    !.calls = Log(p, "update")])
                         /\ UNCHANGED nextId
                    ELSE /\ Step(p, Thrown([proc[p] EXCEPT !.calls = Log(p, "update")],
                                            "NOT_FOUND"))
                         /\ UNCHANGED <<runs, nextId>>
           ELSE /\ nextId < MaxDocs
                /\ nextId' = nextId + 1
                /\ runs' = [runs EXCEPT ![slug] =
                                @ \cup {[id |-> nextId + 1, auditedOn |-> data.auditedOn,
                                         lhrSlim |-> data.lhrSlim]}]
                /\ Step(p, [proc[p] EXCEPT !.pc = "saveTouch", !.calls = Log(p, "add")])
    /\ UNCHANGED <<clock, full, meta, memcache, overlap, arg, out, phase>>

\* only the report list of the URL is deleted
ClearedKeys_ReportsOnly == {"getReports"}

\* lines 139-140: the cache entries saveReport deletes after the write
ClearedKeys == {"getReports", "getMedianScoresOfAllUrls"}

\* line 136
SaveTouch(p) ==
    /\ proc[p].pc = "saveTouch"
    /\ \E t \in 0..MaxTime : updateLastViewed(proc[p].url, t)
    /\ Step(p, [proc[p] EXCEPT !.pc = "saveClear",
                               !.pending = ClearedKeys,
                               !.calls = Log(p, "set meta")])
    /\ UNCHANGED <<runs, full, memcache, nextId, overlap, arg, out, phase>>

\* lines 138-143: the two deletes of Promise.all complete in either order;
\* after the second, saveReport returns data
SaveClear(p) ==
    /\ proc[p].pc = "saveClear"
    /\ \E key \in proc[p].pending :
        /\ memcache' =
              IF key = "getReports"
              THEN [memcache EXCEPT !.getReports[slugify(proc[p].url)] = <<>>]
              ELSE [memcache EXCEPT !.getMedianScoresOfAllUrls = <<>>]
        /\ Step(p, [proc[p] EXCEPT
                      !.pending = @ \ {key},
                      !.calls = Log(p, IF key = "getReports"
                                       THEN "delete getReports"
                                       ELSE "delete getMedianScoresOfAllUrls"),
                      !.pc = IF proc[p].pending = {key} THEN "done" ELSE "saveClear",
                      !.ret = IF proc[p].pending = {key}
                              THEN <<[auditedOn |-> proc[p].today,
                                      lhrSlim |-> proc[p].lhrSlim]>>
                              ELSE <<>>])
    /\ UNCHANGED <<clock, runs, full, meta, nextId, overlap, arg, out, phase>>

saveReport(p) ==
    \/ CallSaveReport(p)
    \/ SaveQuery(p)
    \/ SaveNewUrl(p)
    \/ SaveUpload(p)
    \/ SaveWrite(p)
    \/ SaveTouch(p)
    \/ SaveClear(p)

\* a remote call that saveReport awaits rejects, and has had no effect.  Of
\* the two deletes of Promise.all, issued together, one rejects and the
\* other may have been done.
SaveFails(p) ==
    /\ proc[p].pc \in {"saveQuery", "saveNewUrl", "saveUpload", "saveWrite",
                       "saveTouch", "saveClear"}
    /\ \E deleted \in SUBSET proc[p].pending :
        /\ deleted # proc[p].pending \/ proc[p].pc # "saveClear"
        /\ proc[p].pc # "saveClear" => deleted = {}
        /\ memcache' =
              [memcache EXCEPT
                 !.getReports[slugify(proc[p].url)] =
                     IF "getReports" \in deleted THEN <<>> ELSE @,
                 !.getMedianScoresOfAllUrls =
                     IF "getMedianScoresOfAllUrls" \in deleted THEN <<>> ELSE @]
    /\ Step(p, Thrown([proc[p] EXCEPT !.calls = Log(p, "rejected")], "StorageError"))
    /\ UNCHANGED <<clock, runs, full, meta, nextId, overlap, arg, out, phase>>

----------------------------------------------------------------------------
(* runLighthouseAPI(url, replace). *)

\* json.lhr of the payloads of api.audit: the categories and runtimeError,
\* which is absent, or has the code NO_ERROR, or the code of a failed run
AuditPayloads ==
    [lhrSlim : Payloads,
     runtimeError : {<<>>, <<"NO_ERROR">>, <<"FAILED_DOCUMENT_REQUEST">>}]

\* line 172: the call
CallRunLighthouseAPI(p) ==
    /\ proc[p].pc = "idle"
    /\ \E url \in CallUrls, replace \in BOOLEAN :
        Step(p, [Idle EXCEPT !.op = "runLighthouseAPI", !.pc = "runAudit",
                             !.url = url, !.replace = replace])
    /\ UNCHANGED <<clock, runs, full, meta, memcache, nextId, overlap, arg, out, phase>>

\* the test on runtimeError left out
RuntimeError_Never(lhr) == FALSE

\* line 180: json.lhr.runtimeError && json.lhr.runtimeError.code !== 'NO_ERROR'
RuntimeError(lhr) == lhr.runtimeError # <<>> /\ lhr.runtimeError[1] # "NO_ERROR"

\* lines 177-185: the audit answers.  A failed run is thrown and caught;
\* otherwise saveReport is entered, which reads the clock
RunAudit(p) ==
    /\ proc[p].pc = "runAudit"
    /\ \E lhr \in AuditPayloads, t \in 0..MaxTime :
        LET rec == [proc[p] EXCEPT !.val = <<lhr>>, !.calls = Log(p, "audit")]
        IN  IF RuntimeError(lhr)
            THEN /\ t = clock
                 /\ Step(p, Thrown(rec, lhr.runtimeError[1]))
                 /\ UNCHANGED <<clock, overlap>>
            ELSE /\ Now(t)
                 /\ Overlap(p, "saveReport", proc[p].url)
                 /\ Step(p, [rec EXCEPT !.pc = "saveQuery", !.lhrSlim = lhr.lhrSlim,
                                        !.today = t])
    /\ UNCHANGED <<runs, full, meta, memcache, nextId, arg, out, phase>>

\* api.audit rejects
RunAuditFails(p) ==
    /\ proc[p].pc = "runAudit"
    /\ Step(p, Thrown([proc[p] EXCEPT !.calls = Log(p, "audit")], "AuditError"))
    /\ UNCHANGED <<clock, runs, full, meta, memcache, nextId, overlap, arg, out, phase>>

runLighthouseAPI(p) ==
    \/ CallRunLighthouseAPI(p)
    \/ RunAudit(p)
    \/ RunAuditFails(p)

----------------------------------------------------------------------------
(* getReports(url, {maxResults, useCache}). *)

MaxResultsArgs == {1, MAX_REPORTS}

\* the value of a variable that was given none
undefined == -1

\* the config objects that give both fields
FullConfigs ==
    {<<[maxResults |-> <<m>>, useCache |-> <<c>>]>> : m \in MaxResultsArgs, c \in BOOLEAN}

\* no config object, and the config objects that give one field
PartialConfigs ==
    {<<>>} \cup {<<[maxResults |-> <<m>>, useCache |-> <<>>]>> : m \in MaxResultsArgs}
           \cup {<<[maxResults |-> <<>>, useCache |-> <<c>>]>> : c \in BOOLEAN}

\* the config arguments of the calls: partial ones where they are studied,
\* and no call of getReports or getMedianScoresOfAllUrls while the URLs are
\* listed beside a saveReport
Configs ==
    IF phase = "configs" THEN FullConfigs \cup PartialConfigs
    ELSE IF phase = "racing" THEN {}
    ELSE FullConfigs

\* {maxResults, useCache}={maxResults: MAX_REPORTS, useCache: true}: the
\* default is taken when no object is given; a field the object lacks is
\* undefined, and an undefined useCache is falsy wherever it is tested
Destructure(config) ==
    IF config = <<>> THEN [maxResults |-> MAX_REPORTS, useCache |-> TRUE]
    ELSE [maxResults |-> IF config[1].maxResults = <<>> THEN undefined
                         ELSE config[1].maxResults[1],
          useCache |-> config[1].useCache # <<>> /\ config[1].useCache[1]]

\* lines 319-321: the call
CallGetReports(p) ==
    /\ proc[p].pc = "idle"
    /\ \E url \in CallUrls, config \in Configs :
        /\ Overlap(p, "getReports", url)
        /\ Step(p, [Idle EXCEPT !.op = "getReports", !.pc = "getCache", !.url = url,
                                !.config = config,
                                !.maxResults = Destructure(config).maxResults,
                                !.useCache = Destructure(config).useCache])
    /\ UNCHANGED <<clock, runs, full, meta, memcache, nextId, arg, out, phase>>

\* val && !useCache
CacheHit_Inverted(val, useCache) == val # <<>> /\ ~useCache

\* val && useCache
CacheHit(val, useCache) == val # <<>> /\ useCache

\* lines 322-323: the cache is read
GetCache(p) ==
    /\ proc[p].pc = "getCache"
    /\ LET val == memcache.getReports[slugify(proc[p].url)]
       IN  Step(p, [proc[p] EXCEPT
                       !.val = val,
                       !.pc = IF CacheHit(val, proc[p].useCache)
                              THEN "getHit" ELSE "getQuery",
                       !.calls = Log(p, "get getReports")])
    /\ UNCHANGED <<clock, runs, full, meta, memcache, nextId, overlap, arg, out, phase>>

\* lines 324-325: a hit; last viewed is touched and the cached value returned
GetHit(p) ==
    /\ proc[p].pc = "getHit"
    /\ \E t \in 0..MaxTime : updateLastViewed(proc[p].url, t)
    /\ Step(p, [proc[p] EXCEPT !.pc = "done", !.ret = proc[p].val,
                               !.calls = Log(p, "set meta")])
    /\ UNCHANGED <<runs, full, memcache, nextId, overlap, arg, out, phase>>

\* .limit(maxResults) of line 329: an undefined limit is left to the
\* Firestore client, which takes it for no limit or throws
Limited(slug, maxResults) ==
    IF maxResults = undefined
    THEN NewestFirst(Collection(slug), Cardinality(Collection(slug)))
    ELSE QueryNewest(slug, maxResults)

\* lines 328-337: the newest maxResults run documents; none, and [] is returned
GetQuery(p) ==
    /\ proc[p].pc = "getQuery"
    /\ \/ \E snapshot \in Limited(slugify(proc[p].url), proc[p].maxResults) :
            Step(p, [proc[p] EXCEPT
                        !.docs = Reverse(snapshot),
                        !.pc = IF snapshot = <<>> THEN "done" ELSE "getTouch",
                        !.ret = IF snapshot = <<>> THEN <<<<>>>> ELSE <<>>,
                        !.calls = Log(p, "query")])
       \/ /\ proc[p].maxResults = undefined
          /\ Step(p, Thrown([proc[p] EXCEPT !.calls = Log(p, "query")],
                            "INVALID_ARGUMENT"))
    /\ UNCHANGED <<clock, runs, full, meta, memcache, nextId, overlap, arg, out, phase>>

\* line 338
GetTouch(p) ==
    /\ proc[p].pc = "getTouch"
    /\ \E t \in 0..MaxTime : updateLastViewed(proc[p].url, t)
    /\ Step(p, [proc[p] EXCEPT !.pc = "getDownload", !.calls = Log(p, "set meta")])
    /\ UNCHANGED <<runs, full, memcache, nextId, overlap, arg, out, phase>>

\* the comparison forgotten: every run gets the lhr
SameDate_Always(auditedOn, lhr) == TRUE

\* line 346: r.auditedOn.toISOString() === lhr.auditedOn
SameDate(auditedOn, lhr) == toISOString(auditedOn) = lhr.auditedOn

\* lines 342-350: doc.data() of each run, its date, and the lhr on the run
\* whose date is the lhr's
WithLhr(docs, lhr) ==
    [i \in 1..Len(docs) |->
        LET auditedOn == toDate(docs[i].auditedOn)
        IN  [lhrSlim |-> docs[i].lhrSlim,
             auditedOn |-> auditedOn,
             lhr |-> IF SameDate(auditedOn, lhr) THEN <<lhr>> ELSE <<>>]]

\* lines 341-356: the full report is downloaded (download rejects when there
\* is none) and joined to the runs
GetDownload(p) ==
    /\ proc[p].pc = "getDownload"
    /\ LET blob == full[slugify(proc[p].url)]
       IN  IF blob = <<>>
           THEN Step(p, Thrown([proc[p] EXCEPT !.calls = Log(p, "download")],
                               "NOT_FOUND"))
           ELSE Step(p, [proc[p] EXCEPT
                           !.docs = WithLhr(proc[p].docs, blob[1]),
                           !.pc = IF proc[p].useCache THEN "getSet" ELSE "done",
                           !.ret = IF proc[p].useCache THEN <<>>
                                   ELSE <<WithLhr(proc[p].docs, blob[1])>>,
                           !.calls = Log(p, "download")])
    /\ UNCHANGED <<clock, runs, full, meta, memcache, nextId, overlap, arg, out, phase>>

\* lines 352-356
GetSet(p) ==
    /\ proc[p].pc = "getSet"
    /\ memcache' = [memcache EXCEPT !.getReports[slugify(proc[p].url)] = <<proc[p].docs>>]
    /\ Step(p, [proc[p] EXCEPT !.pc = "done", !.ret = <<proc[p].docs>>,
                               !.calls = Log(p, "set getReports")])
    /\ UNCHANGED <<clock, runs, full, meta, nextId, overlap, arg, out, phase>>

getReports(p) ==
    \/ CallGetReports(p)
    \/ GetCache(p)
    \/ GetHit(p)
    \/ GetQuery(p)
    \/ GetTouch(p)
    \/ GetDownload(p)
    \/ GetSet(p)

----------------------------------------------------------------------------
(* deleteReports(url) and deleteBatch_. *)

\* lines 396-402: the call (had is history: the number of run records of the
\* URL as the call is made)
CallDeleteReports(p) ==
    /\ proc[p].pc = "idle"
    /\ \E url \in CallUrls :
        /\ Overlap(p, "deleteReports", url)
        /\ Step(p, [Idle EXCEPT !.op = "deleteReports", !.pc = "deleteQuery",
                                !.url = url,
                                !.had = Cardinality(Collection(slugify(url)))])
    /\ UNCHANGED <<clock, runs, full, meta, memcache, nextId, arg, out, phase>>

\* lines 366-369 and 376-379: the next batch is read; when it is empty the
\* promise resolves
\* lines 376-378: resolve(); deleteReports returns to its caller, or to the
\* cleanup, which goes on to deleteMetadata
AfterDelete(rec) ==
    IF rec.op = "cleanup" THEN [rec EXCEPT !.pc = "cleanupMeta"]
    ELSE [rec EXCEPT !.pc = "done", !.ret = <<"resolved">>]

DeleteQuery(p) ==
    /\ proc[p].pc = "deleteQuery"
    /\ LET snapshot == QueryByName(slugify(proc[p].url), batchSize)
           rec == [proc[p] EXCEPT !.docs = snapshot, !.calls = Log(p, "query")]
       IN  Step(p, IF Len(snapshot) = 0 THEN AfterDelete(rec)
                   ELSE [rec EXCEPT !.pc = "deleteCommit"])
    /\ UNCHANGED <<clock, runs, full, meta, memcache, nextId, overlap, arg, out, phase>>

\* lines 370-385: the batch is committed, and deleteBatch_ runs again on the
\* next tick
DeleteCommit(p) ==
    /\ proc[p].pc = "deleteCommit"
    /\ LET slug == slugify(proc[p].url)
           refs == {proc[p].docs[i].id : i \in 1..Len(proc[p].docs)}
       IN  runs' = [runs EXCEPT ![slug] = {d \in @ : d.id \notin refs}]
    /\ Step(p, [proc[p] EXCEPT !.pc = "deleteQuery",
                               !.batches = Append(@, Len(proc[p].docs)),
                               !.calls = Log(p, "commit")])
    /\ UNCHANGED <<clock, full, meta, memcache, nextId, overlap, arg, out, phase>>

\* the failure is dropped and the next batch read
Rejected_Swallowed(rec) == [rec EXCEPT !.pc = "deleteQuery"]

\* line 387: .catch(reject), the promise of deleteReports rejects
Rejected(rec) == [rec EXCEPT !.pc = "failed", !.ret = <<[rejected |-> "StorageError"]>>]

\* query.get() or batch.commit() rejects, and has had no effect (a batch is
\* committed whole or not at all)
DeleteFails(p) ==
    /\ proc[p].pc \in {"deleteQuery", "deleteCommit"}
    /\ Step(p, Rejected([proc[p] EXCEPT !.calls = Log(p, "rejected")]))
    /\ UNCHANGED <<clock, runs, full, meta, memcache, nextId, overlap, arg, out, phase>>

deleteReports(p) ==
    \/ CallDeleteReports(p)
    \/ DeleteQuery(p)
    \/ DeleteCommit(p)

----------------------------------------------------------------------------
(* getUrlsLastViewedBefore(cutoffDate) and deleteMetadata(url). *)

\* the slugs of the set S in the order of their lastViewed (equal ones in
\* the order of their names)
RECURSIVE ByLastViewed(_)
ByLastViewed(S) ==
    IF S = {} THEN {<<>>}
    ELSE UNION {{<<id>> \o t : t \in ByLastViewed(S \ {id})} :
                id \in {e \in S : \A f \in S :
                            ~TsLess(meta[f][1].lastViewed, meta[e][1].lastViewed)}}

\* .where('lastViewed', '<=', cutoffDate)
StaleFilter_OrEqual(lastViewed, cutoffDate) == ~TsLess(fromDate(cutoffDate), lastViewed)

\* .where('lastViewed', '<', cutoffDate)
StaleFilter(lastViewed, cutoffDate) == TsLess(lastViewed, fromDate(cutoffDate))

\* lines 152-162: the ids of the meta documents the query selects
getUrlsLastViewedBefore(p) ==
    /\ proc[p].pc = "idle"
    /\ \E cutoffDate \in 0..(MaxTime + 1) :
       \E staleUrls \in ByLastViewed({id \in Slugs :
                            /\ meta[id] # <<>>
                            /\ StaleFilter(meta[id][1].lastViewed, cutoffDate)}) :
        Step(p, [Idle EXCEPT !.op = "getUrlsLastViewedBefore", !.pc = "done",
                             !.today = cutoffDate, !.ret = <<staleUrls>>,
                             !.calls = <<"query meta">>])
    /\ UNCHANGED <<clock, runs, full, meta, memcache, nextId, overlap, arg, out, phase>>

\* lines 412-414
deleteMetadata(p) ==
    /\ proc[p].pc = "idle"
    /\ \E url \in Urls :
        /\ meta' = [meta EXCEPT ![slugify(url)] = <<>>]
        /\ Step(p, [Idle EXCEPT !.op = "deleteMetadata", !.pc = "done", !.url = url,
                                !.ret = <<"resolved">>, !.calls = <<"delete meta">>])
    /\ UNCHANGED <<clock, runs, full, memcache, nextId, overlap, arg, out, phase>>

\* The cleanup of stale URLs: getUrlsLastViewedBefore(cutoffDate), then for
\* each id returned deleteReports and, when it has resolved, deleteMetadata.

\* the scan, and deleteReports of the first stale URL
CleanupScan(p) ==
    /\ proc[p].pc = "idle"
    /\ \E cutoffDate \in 0..(MaxTime + 1) :
       \E staleUrls \in ByLastViewed({id \in Slugs :
                            /\ meta[id] # <<>>
                            /\ StaleFilter(meta[id][1].lastViewed, cutoffDate)}) :
        Step(p, IF staleUrls = <<>>
                THEN [Idle EXCEPT !.op = "cleanup", !.pc = "done",
                                  !.today = cutoffDate, !.ret = <<"resolved">>,
                                  !.calls = <<"query meta">>]
                ELSE [Idle EXCEPT !.op = "cleanup", !.pc = "deleteQuery",
                                  !.today = cutoffDate, !.urls = staleUrls,
                                  !.url = deslugify(Head(staleUrls)),
                                  !.calls = <<"query meta">>])
    /\ UNCHANGED <<clock, runs, full, meta, memcache, nextId, overlap, arg, out, phase>>

\* deleteMetadata of the URL whose reports were deleted, and deleteReports of
\* the next stale URL
CleanupMeta(p) ==
    /\ proc[p].pc = "cleanupMeta"
    /\ meta' = [meta EXCEPT ![slugify(proc[p].url)] = <<>>]
    /\ LET rec == [proc[p] EXCEPT !.urls = Tail(@), !.calls = Log(p, "delete meta")]
       IN  Step(p, IF rec.urls = <<>>
                   THEN [rec EXCEPT !.pc = "done", !.ret = <<"resolved">>]
                   ELSE [rec EXCEPT !.pc = "deleteQuery",
                                    !.url = deslugify(Head(rec.urls))])
    /\ UNCHANGED <<clock, runs, full, memcache, nextId, overlap, arg, out, phase>>

cleanup(p) ==
    \/ CleanupScan(p)
    \/ DeleteQuery(p)
    \/ DeleteCommit(p)
    \/ CleanupMeta(p)

\* the caller takes the result, or the rejection, of its call
Return(p) ==
    /\ proc[p].pc \in {"done", "failed"}
    /\ Step(p, Idle)
    /\ UNCHANGED <<clock, runs, full, meta, memcache, nextId, overlap, arg, out, phase>>

----------------------------------------------------------------------------
(* getAllSavedUrls({useCache}). *)

\* the code unit of a character
Code(c) ==
    CASE c = "/" -> 47 [] c = "_" -> 95 [] c = "a" -> 97 [] c = "e" -> 101
      [] c = "h" -> 104 [] c = "m" -> 109 [] c = "p" -> 112 [] c = "t" -> 116

RECURSIVE StrLess(_, _)
StrLess(a, b) ==
    IF b = <<>> THEN FALSE
    ELSE IF a = <<>> THEN TRUE
    ELSE IF Head(a) # Head(b) THEN Code(Head(a)) < Code(Head(b))
    ELSE StrLess(Tail(a), Tail(b))

RECURSIVE InsertString(_, _)
InsertString(x, s) ==
    IF s = <<>> THEN <<x>>
    ELSE IF StrLess(x, Head(s)) THEN <<x>> \o s
    ELSE <<Head(s)>> \o InsertString(x, Tail(s))

\* the array of the strings f(c), c in S, after sort()
RECURSIVE SortedStrings(_)
SortedStrings(S) ==
    IF S = {} THEN <<>>
    ELSE LET c == CHOOSE x \in S : TRUE
         IN  InsertString(deslugify(c), SortedStrings(S \ {c}))

\* db.getCollections(): the collections that hold a document
getCollections ==
    {id \in Slugs : runs[id] # {}}
        \cup (IF \E id \in Slugs : meta[id] # <<>> THEN {<<"m", "e", "t", "a">>} ELSE {})

\* lines 206-208
SavedUrls ==
    SortedStrings({id \in getCollections : startsWith(id, <<"h", "t", "t", "p">>)})

\* lines 238-248 of getAllScores: score * 100 of each category of each run,
\* by category
RECURSIVE PushAll(_, _)
PushAll(scores, lhrSlim) ==
    IF lhrSlim = <<>> THEN scores
    ELSE LET cat == Head(lhrSlim)
             old == IF cat.id \in DOMAIN scores THEN scores[cat.id] ELSE <<>>
         IN  PushAll([id \in DOMAIN scores \cup {cat.id} |->
                         IF id = cat.id THEN Append(old, cat.score) ELSE scores[id]],
                     Tail(lhrSlim))

RECURSIVE ScoresOf(_, _)
ScoresOf(scores, docs) ==
    IF docs = <<>> THEN scores
    ELSE ScoresOf(PushAll(scores, Head(docs).lhrSlim), Tail(docs))

\* line 231: maxResults=MAX_REPORTS, the default of an undefined argument
DefaultMaxResults(maxResults) ==
    IF maxResults = undefined THEN MAX_REPORTS ELSE maxResults

\* lines 289-294: combinedScores[cat].push(...scores)
Combine(combinedScores, urlScores) ==
    [cat \in DOMAIN combinedScores \cup DOMAIN urlScores |->
        (IF cat \in DOMAIN combinedScores THEN combinedScores[cat] ELSE <<>>)
            \o (IF cat \in DOMAIN urlScores THEN urlScores[cat] ELSE <<>>)]

\* lines 298-307: the medians; they are cached when useCache
AfterScores(rec) ==
    LET medians == [cat \in DOMAIN rec.scores |-> median(rec.scores[cat])]
    IN  IF rec.useCache
        THEN [rec EXCEPT !.pc = "medianSet", !.val = <<medians>>]
        ELSE [rec EXCEPT !.pc = "done", !.ret = <<medians>>]

\* getAllSavedUrls returns urls: to its caller, or to line 286 of
\* getMedianScoresOfAllUrls
AfterUrls(rec, urls) ==
    IF rec.op = "getAllSavedUrls" THEN [rec EXCEPT !.pc = "done", !.ret = <<urls>>]
    ELSE IF urls = <<>> THEN AfterScores([rec EXCEPT !.urls = urls])
    ELSE [rec EXCEPT !.pc = "medianScores", !.urls = urls]

\* useCache of the running getAllSavedUrls: line 286 calls it with no argument
UrlsUseCache(rec) == IF rec.op = "getAllSavedUrls" THEN rec.useCache ELSE TRUE

\* line 200: the call
CallGetAllSavedUrls(p) ==
    /\ proc[p].pc = "idle"
    /\ \E useCache \in BOOLEAN :
        Step(p, [Idle EXCEPT !.op = "getAllSavedUrls", !.pc = "urlsCache",
                             !.useCache = useCache])
    /\ UNCHANGED <<clock, runs, full, meta, memcache, nextId, overlap, arg, out, phase>>

\* lines 201-204
UrlsCache(p) ==
    /\ proc[p].pc = "urlsCache"
    /\ LET val == memcache.getAllSavedUrls
           rec == [proc[p] EXCEPT !.calls = Log(p, "get getAllSavedUrls")]
       IN  Step(p, IF CacheHit(val, UrlsUseCache(rec))
                   THEN AfterUrls(rec, val[1])
                   ELSE [rec EXCEPT !.pc = "urlsList"])
    /\ UNCHANGED <<clock, runs, full, meta, memcache, nextId, overlap, arg, out, phase>>

\* lines 206-208
UrlsList(p) ==
    /\ proc[p].pc = "urlsList"
    /\ Step(p, [proc[p] EXCEPT !.pc = "urlsSet", !.urls = SavedUrls,
                               !.calls = Log(p, "getCollections")])
    /\ UNCHANGED <<clock, runs, full, meta, memcache, nextId, overlap, arg, out, phase>>

\* lines 210-212
UrlsSet(p) ==
    /\ proc[p].pc = "urlsSet"
    /\ memcache' = [memcache EXCEPT !.getAllSavedUrls = <<proc[p].urls>>]
    /\ Step(p, AfterUrls([proc[p] EXCEPT !.calls = Log(p, "set getAllSavedUrls")],
                         proc[p].urls))
    /\ UNCHANGED <<clock, runs, full, meta, nextId, overlap, arg, out, phase>>

getAllSavedUrls(p) ==
    \/ CallGetAllSavedUrls(p)
    \/ UrlsCache(p)
    \/ UrlsList(p)
    \/ UrlsSet(p)

----------------------------------------------------------------------------
(* getMedianScoresOfAllUrls({maxResults, useCache}). *)

\* lines 277-278: the call
CallGetMedianScoresOfAllUrls(p) ==
    /\ proc[p].pc = "idle"
    /\ \E config \in Configs :
        Step(p, [Idle EXCEPT !.op = "getMedianScoresOfAllUrls", !.pc = "medianCache",
                             !.config = config,
                             !.maxResults = Destructure(config).maxResults,
                             !.useCache = Destructure(config).useCache])
    /\ UNCHANGED <<clock, runs, full, meta, memcache, nextId, overlap, arg, out, phase>>

\* lines 279-286: a hit returns the cached medians; otherwise getAllSavedUrls
\* is called
MedianCache(p) ==
    /\ proc[p].pc = "medianCache"
    /\ LET val == memcache.getMedianScoresOfAllUrls
           rec == [proc[p] EXCEPT !.calls = Log(p, "get getMedianScoresOfAllUrls")]
       IN  Step(p, IF CacheHit(val, rec.useCache)
                   THEN [rec EXCEPT !.pc = "done", !.ret = val]
                   ELSE [rec EXCEPT !.pc = "urlsCache"])
    /\ UNCHANGED <<clock, runs, full, meta, memcache, nextId, overlap, arg, out, phase>>

\* lines 287-295 and getAllScores: the scores of the next URL's newest
\* maxResults runs, oldest first, are added to the combined scores
MedianScores(p) ==
    /\ proc[p].pc = "medianScores"
    /\ \E snapshot \in QueryNewest(slugify(Head(proc[p].urls)),
                                   DefaultMaxResults(proc[p].maxResults)) :
        LET urlScores == ScoresOf(<<>>, Reverse(snapshot))
            rec == [proc[p] EXCEPT !.urls = Tail(@),
                                   !.scores = Combine(@, urlScores),
                                   !.calls = Log(p, "query")]
        IN  Step(p, IF rec.urls = <<>> THEN AfterScores(rec) ELSE rec)
    /\ UNCHANGED <<clock, runs, full, meta, memcache, nextId, overlap, arg, out, phase>>

\* lines 303-307
MedianSet(p) ==
    /\ proc[p].pc = "medianSet"
    /\ memcache' = [memcache EXCEPT !.getMedianScoresOfAllUrls = proc[p].val]
    /\ Step(p, [proc[p] EXCEPT !.pc = "done", !.ret = proc[p].val,
                               !.calls = Log(p, "set getMedianScoresOfAllUrls")])
    /\ UNCHANGED <<clock, runs, full, meta, nextId, overlap, arg, out, phase>>

getMedianScoresOfAllUrls(p) ==
    \/ CallGetMedianScoresOfAllUrls(p)
    \/ MedianCache(p)
    \/ MedianScores(p)
    \/ MedianSet(p)

----------------------------------------------------------------------------
(* The report store: callers whose remote calls interleave. *)

EmptyCache ==
    [getAllSavedUrls |-> <<>>, getMedianScoresOfAllUrls |-> <<>>,
     getReports |-> [id \in Slugs |-> <<>>]]

StoreInit ==
    /\ clock = 0
    /\ runs = [id \in Slugs |-> {}]
    /\ full = [id \in Slugs |-> <<>>]
    /\ meta = [id \in Slugs |-> <<>>]
    /\ memcache = EmptyCache
    /\ nextId = 0
    /\ proc = [p \in Procs |-> Idle]
    /\ overlap = [id \in Slugs |-> [writes |-> FALSE, reads |-> FALSE]]

Call(p) ==
    \/ saveReport(p)
    \/ getReports(p)
    \/ deleteReports(p)
    \/ getUrlsLastViewedBefore(p)
    \/ deleteMetadata(p)
    \/ getAllSavedUrls(p)
    \/ Return(p)

\* one caller, whose calls follow one another
SeqNext == Call(1)

SeqInit == StoreInit /\ arg = <<>> /\ out = <<>> /\ phase = "sequential"

SeqSpec == SeqInit /\ [][SeqNext]_vars

\* two callers on one URL whose remote calls interleave: one saves and reads,
\* the other saves
Next ==
    \/ saveReport(1)
    \/ getReports(1)
    \/ Return(1)
    \/ saveReport(2)
    \/ Return(2)

Init == StoreInit /\ arg = <<>> /\ out = <<>> /\ phase = "interleaved"

Spec == Init /\ [][Next]_vars

----------------------------------------------------------------------------
(* The identifier codec alone: a URL is encoded, and the id decoded. *)

Alphabet == {"/", "_", "a"}

CodecInit ==
    /\ StoreInit
    /\ arg \in SeqsUpTo(Alphabet, MaxUrlLen)
    /\ out = <<>>
    /\ phase = "url"

Encode ==
    /\ phase = "url"
    /\ out' = <<slugify(arg)>>
    /\ phase' = "id"
    /\ UNCHANGED <<clock, runs, full, meta, memcache, nextId, proc, overlap, arg>>

Decode ==
    /\ phase = "id"
    /\ out' = Append(out, deslugify(out[1]))
    /\ phase' = "decoded"
    /\ UNCHANGED <<clock, runs, full, meta, memcache, nextId, proc, overlap, arg>>

CodecNext == Encode \/ Decode

CodecSpec == CodecInit /\ [][CodecNext]_vars

\* C9: decoding the encoding of a URL that does not contain "__" gives the
\* URL back, also when an underscore stands next to a slash.
C9_RoundTrip ==
    phase = "decoded" /\ ~Contains(arg, <<"_", "_">>) => out[2] = arg

----------------------------------------------------------------------------
(* median alone, on arrays of scores. *)

Samples == {1, 2, 3, 5, 10, 80, 100}
Examples == {<<3, 5, 4, 4, 1, 1, 2, 3>>, <<1, 2, 3, 4>>, <<5>>}

MedianInit ==
    /\ StoreInit
    /\ arg \in (SeqsUpTo(Samples, MaxNumbers) \ {<<>>}) \cup Examples
    /\ out = <<>>
    /\ phase = "numbers"

\* median(numbers), which sorts its argument in place
Median ==
    /\ phase = "numbers"
    /\ out' = <<arg, median(arg)>>
    /\ arg' = sort(arg)
    /\ phase' = "median"
    /\ UNCHANGED <<clock, runs, full, meta, memcache, nextId, proc, overlap>>

\* the caller goes on with the array median has sorted
MedianAgain ==
    /\ phase = "median"
    /\ out' = <<arg, median(arg)>>
    /\ phase' = "again"
    /\ UNCHANGED <<clock, runs, full, meta, memcache, nextId, proc, overlap, arg>>

MedianNext == Median \/ MedianAgain

MedianSpec == MedianInit /\ [][MedianNext]_vars

\* the numbers in ascending numeric order
RECURSIVE Ascending(_)
Ascending(numbers) ==
    IF numbers = <<>> THEN <<>>
    ELSE LET i == CHOOSE k \in 1..Len(numbers) : \A j \in 1..Len(numbers) :
                      numbers[k] <= numbers[j]
         IN  <<numbers[i]>> \o
             Ascending([j \in 1..(Len(numbers) - 1) |->
                            IF j < i THEN numbers[j] ELSE numbers[j + 1]])

\* the central element of the numbers in ascending order, or the average of
\* the two central ones, as a fraction in lowest terms
NumericMedian(numbers) ==
    LET s == Ascending(numbers)
        len == Len(s)
        twice == IF len % 2 = 1 THEN 2 * s[(len + 1) \div 2]
                 ELSE s[len \div 2] + s[len \div 2 + 1]
    IN  IF twice % 2 = 0 THEN [n |-> twice \div 2, d |-> 1] ELSE [n |-> twice, d |-> 2]

\* C4: median of a non-empty array is the central element (or the average of
\* the two central elements) of the array in ascending numeric order.
C4_MedianIsNumeric ==
    phase \in {"median", "again"} => out[2] = NumericMedian(out[1])

----------------------------------------------------------------------------
(* Properties of the calls of one caller (SeqSpec). *)

\* the run documents of S that no other is newer than
Newest(S) == {d \in S : \A e \in S : ~TsLess(d.auditedOn, e.auditedOn)}

\* C1: the write of a saveReport that succeeds: with replace and a prior run,
\* the number of runs stays and one newest prior run is overwritten with the
\* new data; otherwise the number of runs grows by one.
C1_Write ==
    \A p \in Procs :
        proc[p].pc = "saveWrite" /\ proc'[p].pc = "saveTouch" =>
            LET slug == slugify(proc[p].url)
                prior == runs[slug]
                data == [auditedOn |-> fromDate(proc[p].today),
                         lhrSlim |-> proc[p].lhrSlim]
            IN  IF proc[p].replace /\ prior # {}
                THEN /\ Cardinality(runs'[slug]) = Cardinality(prior)
                     /\ \E d \in Newest(prior) :
                            runs'[slug] = (prior \ {d}) \cup
                                {[id |-> d.id, auditedOn |-> data.auditedOn,
                                  lhrSlim |-> data.lhrSlim]}
                ELSE /\ Cardinality(runs'[slug]) = Cardinality(prior) + 1
                     /\ prior \subseteq runs'[slug]

\* C1: every saveReport write replaces the newest run document in place when
\* replace is set and one exists, and adds one run document otherwise.
C1_ReplaceOrAppend == [][C1_Write]_vars

\* a saveReport with replace has returned after overwriting the newest of two runs
C1_Witness ==
    \E p \in Procs :
        /\ proc[p].op = "saveReport" /\ proc[p].pc = "done" /\ proc[p].replace
        /\ "update" \in {proc[p].calls[i] : i \in 1..Len(proc[p].calls)}
        /\ \E d, e \in runs[slugify(proc[p].url)] :
              /\ d.auditedOn = fromDate(proc[p].today)
              /\ TsLess(e.auditedOn, d.auditedOn)

\* C5: a saveReport whose URL has no run deletes the cache entry
\* getAllSavedUrls, and a saveReport whose URL has a run leaves it as it is.
C5_Step ==
    \A p \in Procs :
        proc[p].op = "saveReport" /\ proc'[p] # proc[p] =>
            /\ proc[p].pc = "saveQuery" =>
                    (proc'[p].pc = "saveNewUrl") = (runs[slugify(proc[p].url)] = {})
            /\ proc[p].pc = "saveNewUrl" => memcache'.getAllSavedUrls = <<>>
            /\ proc[p].pc # "saveNewUrl" =>
                    memcache'.getAllSavedUrls = memcache.getAllSavedUrls

\* C5: saveReport deletes the cached list of URLs exactly when the URL had
\* no run document at its query, and leaves that entry alone otherwise.
C5_NewUrlInvalidatesList == [][C5_Step]_vars

\* a saveReport on a URL that had a run has returned, and the list is cached
C5_Witness ==
    \E p \in Procs :
        /\ proc[p].op = "saveReport" /\ proc[p].pc = "done"
        /\ proc[p].lastDoc # <<>>
        /\ memcache.getAllSavedUrls # <<>>
        /\ memcache.getAllSavedUrls[1] # <<>>

Calls(p) == {proc[p].calls[i] : i \in 1..Len(proc[p].calls)}

\* C6: getReports on a URL with no run returns [], writes no lastViewed and
\* writes no cache entry.
C6_NoRunsNoEffect ==
    \A p \in Procs :
        /\ proc[p].op = "getReports" /\ proc[p].pc = "done"
        /\ runs[slugify(proc[p].url)] = {}
        => /\ proc[p].ret = <<<<>>>>
           /\ "set meta" \notin Calls(p)
           /\ "set getReports" \notin Calls(p)

\* C7: getReports with useCache, when the cache holds the URL's report list,
\* writes lastViewed and returns the cached value, and makes no query.
C7_HitTouchesAndReturns ==
    \A p \in Procs :
        /\ proc[p].op = "getReports" /\ proc[p].pc = "done"
        /\ proc[p].useCache /\ proc[p].val # <<>>
        => /\ proc[p].calls = <<"get getReports", "set meta">>
           /\ proc[p].ret = proc[p].val
           /\ meta[slugify(proc[p].url)] = <<[lastViewed |-> fromDate(clock)]>>

\* a getReports has returned the cached list, after lastViewed was deleted
C7_Witness ==
    \E p \in Procs :
        /\ proc[p].op = "getReports" /\ proc[p].pc = "done"
        /\ proc[p].useCache /\ proc[p].val # <<>>
        /\ Len(proc[p].ret[1]) = 2
        /\ clock > 0

\* C10: getUrlsLastViewedBefore(T) returns the ids of the meta documents
\* whose lastViewed is before T, each once, and no other.
C10_StaleExactly ==
    \A p \in Procs :
        proc[p].op = "getUrlsLastViewedBefore" /\ proc[p].pc = "done" =>
            LET staleUrls == proc[p].ret[1]
                cutoffDate == proc[p].today
            IN  /\ {staleUrls[i] : i \in 1..Len(staleUrls)} =
                      {id \in Slugs : /\ meta[id] # <<>>
                                      /\ toDate(meta[id][1].lastViewed) < cutoffDate}
                /\ \A i, j \in 1..Len(staleUrls) : i # j => staleUrls[i] # staleUrls[j]

\* a scan has returned one URL and left out one last viewed at the cutoff
C10_Witness ==
    \E p \in Procs :
        /\ proc[p].op = "getUrlsLastViewedBefore" /\ proc[p].pc = "done"
        /\ Len(proc[p].ret[1]) = 1
        /\ \E id \in Slugs : /\ meta[id] # <<>>
                             /\ toDate(meta[id][1].lastViewed) = proc[p].today

\* the places of a remote call in the calls of caller p
Places(p, call) == {i \in 1..Len(proc[p].calls) : proc[p].calls[i] = call}

\* C11: a saveReport that has returned has written the run record, and after
\* that has written lastViewed and deleted the URL's report list and the
\* medians from the cache, whatever replace is and whether the URL is new.
C11_TouchesAndClears ==
    \A p \in Procs :
        proc[p].op = "saveReport" /\ proc[p].pc = "done" =>
            LET slug == slugify(proc[p].url)
            IN  /\ \E w \in Places(p, "update") \cup Places(p, "add") :
                      /\ \E t \in Places(p, "set meta") : w < t
                      /\ \E d \in Places(p, "delete getReports") : w < d
                      /\ \E d \in Places(p, "delete getMedianScoresOfAllUrls") : w < d
                /\ meta[slug] # <<>>
                /\ toDate(meta[slug][1].lastViewed) >= proc[p].today
                /\ memcache.getReports[slug] = <<>>
                /\ memcache.getMedianScoresOfAllUrls = <<>>

\* a saveReport without replace has returned on a URL that had a run: it
\* holds two
C11_Witness ==
    \E p \in Procs :
        /\ proc[p].op = "saveReport" /\ proc[p].pc = "done"
        /\ ~proc[p].replace /\ proc[p].lastDoc # <<>>
        /\ Cardinality(runs[slugify(proc[p].url)]) = 2

----------------------------------------------------------------------------
(* One caller whose audits may fail and whose remote calls may reject. *)

FailInit == StoreInit /\ arg = <<>> /\ out = <<>> /\ phase = "failing"

FailNext ==
    \/ runLighthouseAPI(1)
    \/ saveReport(1)
    \/ SaveFails(1)
    \/ Return(1)

FailSpec == FailInit /\ [][FailNext]_vars

\* C12: when the audit answers with a runtimeError whose code is not
\* NO_ERROR, runLighthouseAPI returns (it does not throw) an object with the
\* field errors, and no run record, full report, metadata or cache entry
\* is changed.
C12_Step ==
    \A p \in Procs :
        /\ proc[p].op = "runLighthouseAPI" /\ proc[p].pc = "runAudit"
        /\ proc'[p].val # <<>>
        /\ proc'[p].val[1].runtimeError \notin {<<>>, <<"NO_ERROR">>}
        => /\ proc'[p].pc = "done"
           /\ proc'[p].ret # <<>>
           /\ "errors" \in DOMAIN proc'[p].ret[1]
           /\ UNCHANGED <<runs, full, meta, memcache>>

\* C12: an audit whose run failed makes runLighthouseAPI return an object
\* with errors, and leaves the store and the cache unchanged.
C12_FailedRunIsReturned == [][C12_Step]_vars

\* runLighthouseAPI has returned errors for a failed run of a URL that
\* holds a run
C12_Witness ==
    \E p \in Procs :
        /\ proc[p].op = "runLighthouseAPI" /\ proc[p].pc = "done"
        /\ proc[p].val # <<>> /\ proc[p].val[1].runtimeError = <<"FAILED_DOCUMENT_REQUEST">>
        /\ proc[p].ret = <<[errors |-> "FAILED_DOCUMENT_REQUEST"]>>
        /\ runs[slugify(proc[p].url)] # {}

\* the stored full report of the URL, if any, has the auditedOn of one of the
\* URL's run records
FullIsOfARun(slug) ==
    full[slug] # <<>> =>
        \E d \in runs[slug] : toISOString(toDate(d.auditedOn)) = full[slug][1].auditedOn

\* C20: a saveReport in which a remote call failed rejects, and has left the
\* run records and the full report of the URL as they were: the full report
\* still has the auditedOn of one of the URL's run records.
C20_FailureLeavesStore ==
    \A p \in Procs :
        proc[p].op = "saveReport" /\ "rejected" \in Calls(p) =>
            /\ proc[p].pc = "failed"
            /\ FullIsOfARun(slugify(proc[p].url))

----------------------------------------------------------------------------
(* deleteReports alone, on a URL that holds arg run records. *)

\* the run documents that n calls of saveReport(url, json, false) leave
SavedRuns(n) ==
    {[id |-> i, auditedOn |-> fromDate(i), lhrSlim |-> CHOOSE json \in Payloads : TRUE] :
        i \in 1..n}

DeleteInit ==
    /\ arg \in 0..MaxRecords
    /\ clock = arg
    /\ runs = [id \in Slugs |-> IF id = slugify(U1) THEN SavedRuns(arg) ELSE {}]
    /\ full = [id \in Slugs |->
                IF id = slugify(U1) /\ arg > 0
                THEN <<[auditedOn |-> toISOString(arg)]>> ELSE <<>>]
    /\ meta = [id \in Slugs |->
                IF id = slugify(U1) /\ arg > 0
                THEN <<[lastViewed |-> fromDate(arg)]>> ELSE <<>>]
    /\ memcache = EmptyCache
    /\ nextId = arg
    /\ proc = [p \in Procs |-> Idle]
    /\ overlap = [id \in Slugs |-> [writes |-> FALSE, reads |-> FALSE]]
    /\ out = <<>>
    /\ phase = "delete"

DeleteNext == deleteReports(1) \/ Return(1)

DeleteSpec == DeleteInit /\ [][DeleteNext]_vars

\* the batches that empty n records, batchSize at a time
RECURSIVE BatchesOf(_)
BatchesOf(n) ==
    IF n = 0 THEN <<>>
    ELSE IF n <= 20 THEN <<n>>
    ELSE <<20>> \o BatchesOf(n - 20)

\* C8: deleteReports on a URL with n run records ends after at most
\* ceil(n/20) commits and ceil(n/20) + 1 queries; when it has resolved, no
\* record is left and the batches committed were 20, ..., 20 and the rest
\* (none for n = 0).
C8_Batches ==
    \A p \in Procs :
        proc[p].op = "deleteReports" =>
            LET n == proc[p].had
                batches == BatchesOf(n)
            IN  /\ Len(proc[p].calls) <= 2 * Len(batches) + 1
                /\ Len(proc[p].batches) <= Len(batches)
                /\ proc[p].pc = "done" =>
                      /\ proc[p].batches = batches
                      /\ Len(batches) = (n + 19) \div 20
                      /\ runs[slugify(proc[p].url)] = {}

\* deleteReports has resolved on a URL that held 45 run records
C8_Witness ==
    \E p \in Procs :
        /\ proc[p].op = "deleteReports" /\ proc[p].pc = "done"
        /\ proc[p].had = 45
        /\ proc[p].batches = <<20, 20, 5>>

----------------------------------------------------------------------------
(* deleteReports alone, its queries and commits failing at any point. *)

DeleteFailNext == deleteReports(1) \/ DeleteFails(1) \/ Return(1)

DeleteFailSpec == DeleteInit /\ [][DeleteFailNext]_vars

RECURSIVE SumOf(_)
SumOf(s) == IF s = <<>> THEN 0 ELSE Head(s) + SumOf(Tail(s))

\* C16: when a query or a commit of deleteReports fails, the promise rejects
\* with the failure; after that the call queries and commits nothing more,
\* and the records of the batches committed before stay deleted.
C16_Step ==
    \A p \in Procs :
        proc[p].op = "deleteReports" =>
            /\ proc'[p].calls = Append(proc[p].calls, "rejected") =>
                  /\ proc'[p].pc = "failed"
                  /\ proc'[p].ret = <<[rejected |-> "StorageError"]>>
                  /\ runs' = runs
            /\ "rejected" \in Calls(p) =>
                  /\ proc[p].pc = "failed"
                  /\ proc'[p] \in {proc[p], Idle}
                  /\ runs' = runs
                  /\ Cardinality(runs[slugify(proc[p].url)]) =
                         proc[p].had - SumOf(proc[p].batches)

\* C16: a failure inside deleteReports rejects its promise and ends the
\* batches; what was deleted stays deleted.
C16_FailureEndsBatches == [][C16_Step]_vars

\* deleteReports has rejected after one batch, on a URL that held 45 records
C16_Witness ==
    \E p \in Procs :
        /\ proc[p].op = "deleteReports" /\ proc[p].pc = "failed"
        /\ proc[p].had = 45 /\ proc[p].batches = <<20>>
        /\ Cardinality(runs[slugify(proc[p].url)]) = 25

----------------------------------------------------------------------------
(* The aggregation alone, over a store that saveReport(url, json, false) has *)
(* filled: arg gives, for each URL, the performance scores of its runs.     *)

AggScores == {80, 90, 100}

\* the categories of a payload whose performance score is score
Categories(score) ==
    <<[id |-> "performance", score |-> score], [id |-> "seo", score |-> 100]>>

\* the run documents of a URL saved with the scores s, the first with id
\* first + 1, at the times 0, 1, ...
ScoredRuns(s, first) ==
    {[id |-> first + i, auditedOn |-> fromDate(i - 1), lhrSlim |-> Categories(s[i])] :
        i \in 1..Len(s)}

\* the store that arg describes, and an empty cache
AggStore ==
    /\ arg \in SeqsUpTo(AggScores, MaxRunsPerUrl) \X SeqsUpTo(AggScores, MaxRunsPerUrl)
    /\ clock = IF arg = <<<<>>, <<>>>> THEN 0
               ELSE (IF Len(arg[1]) < Len(arg[2]) THEN Len(arg[2]) ELSE Len(arg[1])) - 1
    /\ runs = [id \in Slugs |-> IF id = slugify(U1) THEN ScoredRuns(arg[1], 0)
                                ELSE ScoredRuns(arg[2], Len(arg[1]))]
    /\ full = [id \in Slugs |->
                LET s == IF id = slugify(U1) THEN arg[1] ELSE arg[2]
                IN  IF s = <<>> THEN <<>> ELSE <<[auditedOn |-> toISOString(Len(s) - 1)]>>]
    /\ meta = [id \in Slugs |->
                LET s == IF id = slugify(U1) THEN arg[1] ELSE arg[2]
                IN  IF s = <<>> THEN <<>> ELSE <<[lastViewed |-> fromDate(Len(s) - 1)]>>]
    /\ memcache = EmptyCache
    /\ nextId = Len(arg[1]) + Len(arg[2])
    /\ proc = [p \in Procs |-> Idle]
    /\ overlap = [id \in Slugs |-> [writes |-> FALSE, reads |-> FALSE]]
    /\ out = <<>>

AggInit == AggStore /\ phase = "aggregate"

AggNext == getMedianScoresOfAllUrls(1) \/ getAllSavedUrls(1) \/ Return(1)

AggSpec == AggInit /\ [][AggNext]_vars

\* the m most recent run documents of a collection
Recent(slug, m) ==
    {d \in runs[slug] :
        Cardinality({e \in runs[slug] : TsLess(d.auditedOn, e.auditedOn)}) < m}

\* the scores of category cat in the documents S, in some order
RECURSIVE PoolOf(_, _)
PoolOf(S, cat) ==
    IF S = {} THEN <<>>
    ELSE LET d == CHOOSE e \in S : TRUE
         IN  SelectSeq([i \in 1..Len(d.lhrSlim) |->
                            IF d.lhrSlim[i].id = cat THEN d.lhrSlim[i].score ELSE -1],
                       LAMBDA x : x >= 0)
             \o PoolOf(S \ {d}, cat)

\* the numeric median, per category, of the scores of every URL's m most
\* recent runs
PooledMedians(m) ==
    LET docs == UNION {Recent(slug, m) : slug \in Slugs}
        cats == UNION {{d.lhrSlim[i].id : i \in 1..Len(d.lhrSlim)} : d \in docs}
    IN  [cat \in cats |-> NumericMedian(PoolOf(docs, cat))]

\* C3: getMedianScoresOfAllUrls returns, per category, the numeric median of
\* the pooled scores of every URL's most recent maxResults runs ([80] and
\* [90, 100] give 90).
C3_PooledMedian ==
    \A p \in Procs :
        proc[p].op = "getMedianScoresOfAllUrls" /\ proc[p].pc = "done" =>
            proc[p].ret[1] = PooledMedians(proc[p].maxResults)

----------------------------------------------------------------------------
(* The reads alone, over a filled store: getReports with full configs, and *)
(* the reads with partial configs.                                         *)

ReadInit == AggStore /\ phase = "reads"

ReadNext == getReports(1) \/ Return(1)

ReadSpec == ReadInit /\ [][ReadNext]_vars

ConfigInit == AggStore /\ phase = "configs"

ConfigNext ==
    \/ getReports(1)
    \/ getMedianScoresOfAllUrls(1)
    \/ getAllSavedUrls(1)
    \/ Return(1)

ConfigSpec == ConfigInit /\ [][ConfigNext]_vars

\* the medians, per category, that median gives for the scores of every
\* URL's m most recent runs
StoredMedians(m) ==
    LET docs == UNION {Recent(slug, m) : slug \in Slugs}
        cats == UNION {{d.lhrSlim[i].id : i \in 1..Len(d.lhrSlim)} : d \in docs}
    IN  [cat \in cats |-> median(PoolOf(docs, cat))]

\* C13: a read called with a config object that lacks a field behaves as
\* with the field's default.  Without useCache, the cache is consulted and
\* filled as with useCache = true: when the read has returned a value, the
\* cache entry holds it.  Without maxResults, what a read that returns has
\* read from the store is read as with maxResults = 10.
C13_PartialConfigDefaults ==
    \A p \in Procs :
        /\ proc[p].op \in {"getReports", "getMedianScoresOfAllUrls"}
        /\ proc[p].pc = "done"
        /\ proc[p].config # <<>>
        => LET config == proc[p].config[1]
               slug == slugify(proc[p].url)
           IN  /\ config.useCache = <<>> /\ proc[p].ret[1] # <<>> =>
                      IF proc[p].op = "getReports"
                      THEN memcache.getReports[slug] = proc[p].ret
                      ELSE memcache.getMedianScoresOfAllUrls = proc[p].ret
               /\ config.maxResults = <<>> /\ "query" \in Calls(p) =>
                      IF proc[p].op = "getReports"
                      THEN Len(proc[p].ret[1]) =
                               Min(MAX_REPORTS, Cardinality(runs[slug]))
                      ELSE proc[p].ret[1] = StoredMedians(MAX_REPORTS)

----------------------------------------------------------------------------
(* A caller that saves reports of a URL while another lists the URLs; when *)
(* all their calls have returned, one caller reads.                        *)

RaceInit == StoreInit /\ arg = <<>> /\ out = <<>> /\ phase = "racing"

\* every call has returned and its result was taken
Settle ==
    /\ phase = "racing"
    /\ \A p \in Procs : proc[p].pc = "idle"
    /\ phase' = "settled"
    /\ UNCHANGED <<clock, runs, full, meta, memcache, nextId, proc, overlap, arg, out>>

\* while racing, caller 1 lists the URLs and caller 2 saves; once settled,
\* caller 1 reads (SaveUrls and Configs are what the phase allows)
RaceNext ==
    \/ getAllSavedUrls(1)
    \/ saveReport(2)
    \/ Return(2)
    \/ Settle
    \/ getMedianScoresOfAllUrls(1)
    \/ getReports(1)
    \/ Return(1)

RaceSpec == RaceInit /\ [][RaceNext]_vars

\* what getReports reads from the store for the URL slug with maxResults m
StoredReports(slug, m) ==
    IF runs[slug] = {} THEN {<<>>}
    ELSE IF full[slug] = <<>> THEN {}
    ELSE {WithLhr(Reverse(snapshot), full[slug][1]) : snapshot \in QueryNewest(slug, m)}

\* C14: what a read called with useCache = false returns is what the store
\* gives, whatever the cache holds: the URLs that have run records, the
\* runs of the URL, the medians of the stored scores.
C14_UncachedReadsTheStore ==
    \A p \in Procs :
        phase = "settled" /\ proc[p].pc = "done" /\ ~proc[p].useCache =>
            /\ proc[p].op = "getAllSavedUrls" => proc[p].ret[1] = SavedUrls
            /\ proc[p].op = "getReports" =>
                   proc[p].ret[1] \in StoredReports(slugify(proc[p].url), proc[p].maxResults)
            /\ proc[p].op = "getMedianScoresOfAllUrls" =>
                   proc[p].ret[1] = StoredMedians(proc[p].maxResults)

\* C17: when no call is in progress, every cache entry that is present is
\* what the uncached read gives from the store: the report list of a URL,
\* the list of the URLs that have run records, the medians.
C17_CacheIsOfTheStore ==
    (\A p \in Procs : Free(p)) =>
        /\ \A slug \in Slugs :
              memcache.getReports[slug] # <<>> =>
                  \E m \in MaxResultsArgs :
                      memcache.getReports[slug][1] \in StoredReports(slug, m)
        /\ memcache.getAllSavedUrls # <<>> => memcache.getAllSavedUrls[1] = SavedUrls
        /\ memcache.getMedianScoresOfAllUrls # <<>> =>
              \E m \in MaxResultsArgs :
                  memcache.getMedianScoresOfAllUrls[1] = StoredMedians(m)

\* C18: when a saveReport of a new URL and the getAllSavedUrls calls that
\* ran beside it have all returned, getAllSavedUrls with useCache = true
\* returns a list that holds the URL.
C18_NewUrlIsListed ==
    \A p \in Procs :
        /\ phase = "settled"
        /\ proc[p].op = "getAllSavedUrls" /\ proc[p].pc = "done" /\ proc[p].useCache
        => \A url \in Urls :
              runs[slugify(url)] # {} =>
                  \E i \in 1..Len(proc[p].ret[1]) : proc[p].ret[1][i] = url

----------------------------------------------------------------------------
(* The cleanup of stale URLs beside a caller that saves and reads reports. *)

CleanupInit == StoreInit /\ arg = <<>> /\ out = <<>> /\ phase = "cleanup"

CleanupNext ==
    \/ cleanup(1)
    \/ Return(1)
    \/ saveReport(2)
    \/ getReports(2)
    \/ Return(2)

CleanupSpec == CleanupInit /\ [][CleanupNext]_vars

\* C19: when the cleanup and the saveReport and getReports calls beside it
\* have all returned, every URL that has a run record has lastViewed
\* metadata.
C19_RunsHaveLastViewed ==
    (\A p \in Procs : Free(p)) =>
        \A slug \in Slugs : runs[slug] # {} => meta[slug] # <<>>

----------------------------------------------------------------------------
(* Properties of interleaved calls (Spec). *)

\* in the result, exactly one run carries the lhr, and it is the stored full
\* report, whose auditedOn is that run's
OneRunCarriesLhr(result, slug) ==
    \E i \in 1..Len(result) :
        /\ result[i].lhr # <<>>
        /\ \A j \in 1..Len(result) : j # i => result[j].lhr = <<>>
        /\ result[i].lhr = full[slug]
        /\ toISOString(result[i].auditedOn) = full[slug][1].auditedOn

\* caller p's getReports returns in this step, with at least one run
ReturnsRuns(p) ==
    /\ proc[p].op = "getReports" /\ proc[p].pc # "done"
    /\ proc'[p].pc = "done" /\ proc'[p].ret[1] # <<>>

DistinctDates(result) ==
    \A i, j \in 1..Len(result) : i # j => result[i].auditedOn # result[j].auditedOn

\* C2: every getReports result with at least one run has exactly one run that
\* carries the lhr, the one whose auditedOn is the stored full report's, also
\* after saveReport calls on the URL whose remote steps interleave.  (Stated
\* for the results whose runs have different auditedOn, after saveReport
\* calls that no getReports has overlapped.)
C2_Returns ==
    \A p \in Procs :
        /\ ReturnsRuns(p)
        /\ ~overlap[slugify(proc[p].url)].reads
        /\ DistinctDates(proc'[p].ret[1])
        => OneRunCarriesLhr(proc[p].ret[1], slugify(proc[p].url))'

\* C2: exactly one run of every getReports result carries the lhr, also
\* after saveReport calls whose remote steps interleave.
C2_ExactlyOneLhr == [][C2_Returns]_vars

\* C2, amended: the same, when moreover no saveReport on the URL has
\* overlapped another saveReport on the URL
C2_ReturnsAmended ==
    \A p \in Procs :
        /\ ReturnsRuns(p)
        /\ ~overlap[slugify(proc[p].url)].reads
        /\ ~overlap[slugify(proc[p].url)].writes
        /\ DistinctDates(proc'[p].ret[1])
        => OneRunCarriesLhr(proc[p].ret[1], slugify(proc[p].url))'

\* C2, amended: exactly one run of a getReports result carries the lhr when
\* no saveReport on the URL has overlapped another call on the URL and the
\* runs of the result have different auditedOn.
C2_ExactlyOneLhrInSequence == [][C2_ReturnsAmended]_vars

\* a getReports has returned two runs of different dates, the newer one
\* with the lhr, and no saveReport has overlapped a call
C2_Witness ==
    \E p \in Procs :
        /\ proc[p].op = "getReports" /\ proc[p].pc = "done"
        /\ ~overlap[slugify(proc[p].url)].reads
        /\ ~overlap[slugify(proc[p].url)].writes
        /\ Len(proc[p].ret[1]) = 2
        /\ proc[p].ret[1][1].auditedOn < proc[p].ret[1][2].auditedOn
        /\ proc[p].ret[1][1].lhr = <<>>
        /\ proc[p].ret[1][2].lhr # <<>>

====
